---- MODULE Spec2Model ----
(***************************************************************************)
(* Model of research-service/main.py: a FastAPI process with three routes  *)
(* (POST /compute, GET /health, GET /meta) and two module-level globals    *)
(* (VERSION, START_TIME).                                                  *)
(*                                                                         *)
(* Floating point.  Candle.close is a Python float (IEEE-754 binary64).    *)
(* The model keeps the structure of the format and scales its parameters   *)
(* down: a float is either finite, an integer number of units (the unit is *)
(* the smallest subnormal) whose magnitude is m * 2^e with m < 2^Precision *)
(* and e <= MaxExp, or +inf, -inf or nan.  Every operation is the exact    *)
(* result rounded to nearest, ties to even, overflowing to infinity.       *)
(*                                                                         *)
(* Time.  time.time() is the wall clock.  The model counts it in ticks of  *)
(* 1/TicksPerCenti hundredths of a second; round(x, 2) maps a difference   *)
(* in ticks to the nearest hundredth.                                      *)
(***************************************************************************)
EXTENDS Integers, Sequences, FiniteSets, Bags, TLC

VARIABLES
    env,          \* value of SERVICE_VERSION in the process environment
    envAtStart,   \* history: the value env had when the module was imported
    VERSION,      \* module global, main.py line 57
    START_TIME,   \* module global, main.py line 58
    clock,        \* current reading of the wall clock (ticks)
    sumImpl,      \* which builtin sum() the interpreter provides
    inflight,     \* bag of /compute handler activations (one per worker thread)
    out,          \* the response most recently sent, with its request
    lastUptime,   \* uptime_seconds of the most recent /meta response
    prev          \* sequential client: the response it got before appending

vars == <<env, envAtStart, VERSION, START_TIME, clock, sumImpl, inflight, out,
          lastUptime, prev>>

---------------------------------------------------------------------------
(* Bounds *)

Precision == 3      \* significand bits of the scaled-down float (53 in binary64)
MaxExp == 2         \* largest exponent of the scaled-down float
MaxCandles == 3     \* longest candle list a client submits first
MaxInFlight == 2    \* /compute requests being handled at once
MaxClock == 5       \* largest wall clock reading
StartClock == 2     \* wall clock reading when the process starts
TicksPerCenti == 3  \* clock ticks per hundredth of a second

None == "none"

---------------------------------------------------------------------------
(* Floats *)

RECURSIVE Pow2(_)
Pow2(k) == IF k <= 0 THEN 1 ELSE 2 * Pow2(k - 1)

Abs(x) == IF x < 0 THEN -x ELSE x

Fin(v) == [cls |-> "fin", val |-> v]
PosInf == [cls |-> "inf", val |-> 1]
NegInf == [cls |-> "inf", val |-> -1]
NaN == [cls |-> "nan", val |-> 0]

IsFinite(x) == x.cls = "fin"

MaxFinite == (Pow2(Precision) - 1) * Pow2(MaxExp)

\* Exponent of the binade that holds the magnitude q (0 for subnormals).
RECURSIVE ExpOf(_)
ExpOf(q) == IF q < Pow2(Precision) THEN 0 ELSE 1 + ExpOf(q \div 2)

\* The float nearest to the rational num/den (den > 0), ties to even,
\* overflow to infinity.
RoundRat(num, den) ==
    LET a == Abs(num)
        sgn == IF num < 0 THEN -1 ELSE 1
        s == Pow2(ExpOf(a \div den))
        lo == (a \div (den * s)) * s
        twiceRem == 2 * a - 2 * lo * den
        mag == IF twiceRem < s * den THEN lo
               ELSE IF twiceRem > s * den THEN lo + s
               ELSE IF (lo \div s) % 2 = 0 THEN lo ELSE lo + s
    IN  IF mag > MaxFinite
        THEN (IF sgn < 0 THEN NegInf ELSE PosInf)
        ELSE Fin(sgn * mag)

FNeg(x) == [cls |-> x.cls, val |-> -x.val]

\* x + y
FAdd(x, y) ==
    IF x.cls = "nan" \/ y.cls = "nan" THEN NaN
    ELSE IF x.cls = "inf" /\ y.cls = "inf"
         THEN IF x.val = y.val THEN x ELSE NaN
    ELSE IF x.cls = "inf" THEN x
    ELSE IF y.cls = "inf" THEN y
    ELSE RoundRat(x.val + y.val, 1)

FSub(x, y) == FAdd(x, FNeg(y))

\* fabs(x) >= fabs(y)
FAbsGe(x, y) ==
    IF x.cls = "nan" \/ y.cls = "nan" THEN FALSE
    ELSE IF x.cls = "inf" THEN TRUE
    ELSE IF y.cls = "inf" THEN FALSE
    ELSE Abs(x.val) >= Abs(y.val)

\* x / n for an int n > 0 (the int converts to a float exactly)
FDivInt(x, n) ==
    IF x.cls = "fin" THEN RoundRat(x.val, n) ELSE x

---------------------------------------------------------------------------
(* builtin sum() over a list of floats *)

\* CPython up to 3.11: the running total is a double, each item is added to it.
RECURSIVE PlainSum(_, _)
PlainSum(closes, k) ==
    IF k = 0 THEN Fin(0) ELSE FAdd(PlainSum(closes, k - 1), closes[k])

\* CPython 3.12 and later: Neumaier's compensated summation.  The state is
\* <<f_result, c>> after the first k items; the first item is added to the
\* int 0, the compensation starts at 0.0.
RECURSIVE Neumaier(_, _)
Neumaier(closes, k) ==
    IF k = 1 THEN <<FAdd(Fin(0), closes[1]), Fin(0)>>
    ELSE LET st == Neumaier(closes, k - 1)
             f == st[1]
             c == st[2]
             x == closes[k]
             t == FAdd(f, x)
         IN  IF FAbsGe(f, x)
             THEN <<t, FAdd(c, FAdd(FSub(f, t), x))>>
             ELSE <<t, FAdd(c, FAdd(FSub(x, t), f))>>

CompensatedSum(closes) ==
    IF Len(closes) = 0 THEN Fin(0)
    ELSE LET st == Neumaier(closes, Len(closes))
         IN  IF st[2] # Fin(0) /\ IsFinite(st[2]) THEN FAdd(st[1], st[2]) ELSE st[1]

\* Variant: the loop stops one item early.
PySumDropLast(impl, closes) ==
    IF impl = "plain" THEN PlainSum(closes, Len(closes) - 1)
    ELSE CompensatedSum(SubSeq(closes, 1, Len(closes) - 1))

SumImpls == {"plain", "compensated"}

PySum(impl, closes) ==
    IF impl = "plain" THEN PlainSum(closes, Len(closes)) ELSE CompensatedSum(closes)

---------------------------------------------------------------------------
(* POST /compute *)

Candle(t, o, h, l, c, v) ==
    [time |-> t, open |-> o, high |-> h, low |-> l, close |-> c, volume |-> v]

\* Variant: reads the open field.
ClosesFromOpen(candles) == [i \in 1..Len(candles) |-> candles[i].open]

\* line 43: closes = [c.close for c in req.candles]
Closes(candles) == [i \in 1..Len(candles) |-> candles[i].close]

\* Variant: counts the distinct closes.
CountDistinct(closes) == Cardinality({closes[i] : i \in 1..Len(closes)})

\* line 46: len(closes)
Count(closes) == Len(closes)

\* Variant: closes[0].
LastCloseFirst(closes) == closes[1]

\* line 47: closes[-1]
LastClose(closes) == closes[Len(closes)]

\* Variant: divides by one more than the length.
AverageCloseOffByOne(impl, closes) == FDivInt(PySum(impl, closes), Len(closes) + 1)

\* line 48: sum(closes) / len(closes)
AverageClose(impl, closes) == FDivInt(PySum(impl, closes), Len(closes))

ComputeResponse(count, last_close, average_close) ==
    [count |-> count, last_close |-> last_close, average_close |-> average_close]

ServerError == [detail |-> "Internal Server Error"]

\* Variant: an empty list is answered with a sentinel record.
ComputeResultSentinel(impl, closes) ==
    IF Len(closes) = 0
    THEN [status |-> 200, raised |-> None, body |-> ComputeResponse(0, Fin(0), Fin(0))]
    ELSE [status |-> 200, raised |-> None,
          body |-> ComputeResponse(Len(closes), closes[Len(closes)],
                                   FDivInt(PySum(impl, closes), Len(closes)))]

\* lines 45-49.  The keyword arguments are evaluated in order, so on an empty
\* list closes[-1] raises IndexError before the division is reached; the
\* exception leaves the handler and the server answers 500.
ComputeResult(impl, closes) ==
    IF Len(closes) = 0
    THEN [status |-> 500, raised |-> "IndexError", body |-> ServerError]
    ELSE [status |-> 200, raised |-> None,
          body |-> ComputeResponse(Count(closes), LastClose(closes),
                                   AverageClose(impl, closes))]

---------------------------------------------------------------------------
(* GET /health, GET /meta and the module globals *)

\* os.getenv(name, default) on an environment where the variable is val
\* (<<>> when it is not set).
Getenv(val, default) == IF val = <<>> THEN default ELSE val[1]

\* round(x, 2) of a difference of d ticks, in hundredths of a second
Round2(d) ==
    LET q == d \div TicksPerCenti
        r == d % TicksPerCenti
    IN  IF 2 * r < TicksPerCenti THEN q
        ELSE IF 2 * r > TicksPerCenti THEN q + 1
        ELSE IF q % 2 = 0 THEN q ELSE q + 1

\* Variant: reports an error once a request has faulted.
HealthBodyAfterFault == [status |-> IF out.status = 500 THEN "error" ELSE "ok"]

HealthBody == [status |-> "ok"]

\* Variant: reads the environment on every call.
MetaBodyReadsEnv(now) ==
    [service |-> "research-service", status |-> "ok",
     uptime_seconds |-> Round2(now - START_TIME), version |-> Getenv(env, "dev")]

MetaBody(now) ==
    [service |-> "research-service", status |-> "ok",
     uptime_seconds |-> Round2(now - START_TIME), version |-> VERSION]

---------------------------------------------------------------------------
(* Inputs *)

\* SERVICE_VERSION: not set, or set to one of two strings
EnvValues == {<<>>, <<"1.4.0">>, <<"2.0.0">>}

\* Close prices the clients send: finite floats of the format, positive and
\* negative (nothing is validated), the largest finite float among them.
CloseValues == {Fin(-5), Fin(1), Fin(6), Fin(7), Fin(MaxFinite)}

\* The other fields of a candle: a regular bar, and a bar with an earlier
\* time, high < low and a negative volume.
Shapes ==
    {[time |-> 2, open |-> Fin(1), high |-> Fin(2), low |-> Fin(1), volume |-> Fin(1)],
     [time |-> 1, open |-> Fin(2), high |-> Fin(1), low |-> Fin(2), volume |-> Fin(-1)]}

Shaped(sh, c) == Candle(sh.time, sh.open, sh.high, sh.low, c, sh.volume)

Candles == {Shaped(sh, c) : sh \in Shapes, c \in CloseValues}

\* Candle lists of the sequential client: every list of 0..MaxCandles candles
Requests == UNION {[1..k -> Candles] : k \in 0..MaxCandles}

\* Candle lists sent to the concurrent service: empty, one candle, and two
\* candles out of time order whose sum rounds
ServiceRequests ==
    {<<>>,
     <<Candle(1, Fin(1), Fin(2), Fin(1), Fin(6), Fin(1))>>,
     <<Candle(2, Fin(1), Fin(2), Fin(1), Fin(7), Fin(1)),
       Candle(1, Fin(2), Fin(1), Fin(2), Fin(6), Fin(-1))>>}

---------------------------------------------------------------------------
(* State *)

NoResponse == [endpoint |-> None, req |-> <<>>, status |-> 0, body |-> [none |-> TRUE]]

Response(endpoint, req, status, body) ==
    [endpoint |-> endpoint, req |-> req, status |-> status, body |-> body]

\* A handler activation of compute(): where it is, its argument, its local
Activation(pc, req, closes) == [pc |-> pc, req |-> req, closes |-> closes]

\* Module import, lines 57-58
Init ==
    /\ env \in EnvValues
    /\ envAtStart = env
    /\ VERSION = Getenv(env, "dev")
    /\ clock = StartClock
    /\ START_TIME = clock
    /\ sumImpl \in SumImpls
    /\ inflight = EmptyBag
    /\ out = NoResponse
    /\ lastUptime = <<>>
    /\ prev = NoResponse

---------------------------------------------------------------------------
(* Actions *)

\* A POST /compute arrives.  ComputeRequest accepts any list of candles, the
\* empty list included; a worker thread enters compute() at line 43.
PostCompute(req) ==
    /\ BagCardinality(inflight) < MaxInFlight
    /\ inflight' = inflight (+) SetToBag({Activation("L43", req, <<>>)})
    /\ UNCHANGED <<env, envAtStart, VERSION, START_TIME, clock, sumImpl, out, lastUptime>>

\* line 43
ComputeCloses(t) ==
    /\ BagIn(t, inflight)
    /\ t.pc = "L43"
    /\ inflight' = (inflight (-) SetToBag({t}))
                     (+) SetToBag({Activation("L45", t.req, Closes(t.req))})
    /\ UNCHANGED <<env, envAtStart, VERSION, START_TIME, clock, sumImpl, out, lastUptime, prev>>

\* Variant: the handler restarts the uptime clock.
ComputeReturnResetsStart(t) ==
    /\ BagIn(t, inflight)
    /\ t.pc = "L45"
    /\ inflight' = inflight (-) SetToBag({t})
    /\ LET r == ComputeResult(sumImpl, t.closes)
       IN  out' = Response("/compute", t.req, r.status, r.body)
    /\ START_TIME' = clock
    /\ UNCHANGED <<env, envAtStart, VERSION, clock, sumImpl, lastUptime, prev>>

\* lines 45-49: the handler returns or raises, the response is sent
ComputeReturn(t) ==
    /\ BagIn(t, inflight)
    /\ t.pc = "L45"
    /\ inflight' = inflight (-) SetToBag({t})
    /\ LET r == ComputeResult(sumImpl, t.closes)
       IN  out' = Response("/compute", t.req, r.status, r.body)
    /\ UNCHANGED <<env, envAtStart, VERSION, START_TIME, clock, sumImpl, lastUptime, prev>>

\* lines 52-54
GetHealth ==
    /\ out' = Response("/health", <<>>, 200, HealthBody)
    /\ UNCHANGED <<env, envAtStart, VERSION, START_TIME, clock, sumImpl, inflight, lastUptime, prev>>

\* lines 60-67
GetMeta ==
    /\ out' = Response("/meta", <<>>, 200, MetaBody(clock))
    /\ lastUptime' = <<out'.body.uptime_seconds>>
    /\ UNCHANGED <<env, envAtStart, VERSION, START_TIME, clock, sumImpl, inflight, prev>>

\* The environment variable is changed after the module was imported.
SetEnv(v) ==
    /\ v # env
    /\ env' = v
    /\ UNCHANGED <<envAtStart, VERSION, START_TIME, clock, sumImpl, inflight, out, lastUptime, prev>>

\* The wall clock advances.
Tick ==
    /\ clock < MaxClock
    /\ clock' = clock + 1
    /\ UNCHANGED <<env, envAtStart, VERSION, START_TIME, sumImpl, inflight, out, lastUptime, prev>>

\* The wall clock is set back (an NTP step, an operator): time.time() may
\* return a lower value than an earlier call did.
ClockSetBack(c) ==
    /\ c < clock
    /\ clock' = c
    /\ UNCHANGED <<env, envAtStart, VERSION, START_TIME, sumImpl, inflight, out, lastUptime, prev>>

Next ==
    \/ \E req \in ServiceRequests : PostCompute(req) /\ UNCHANGED prev
    \/ \E t \in BagToSet(inflight) : ComputeCloses(t)
    \/ \E t \in BagToSet(inflight) : ComputeReturn(t)
    \/ GetHealth
    \/ GetMeta
    \/ \E v \in EnvValues : SetEnv(v)
    \/ Tick
    \/ \E c \in 0..MaxClock : ClockSetBack(c)

Spec == Init /\ [][Next]_vars

---------------------------------------------------------------------------
(* A sequential client of /compute: it posts one candle list, waits for the
   response, then posts the same list with one more candle whose close is
   the average_close it was given. *)

ClientPost ==
    /\ out = NoResponse
    /\ inflight = EmptyBag
    /\ \E req \in Requests : PostCompute(req)
    /\ UNCHANGED prev

ClientAppendAverage(sh) ==
    /\ prev = NoResponse
    /\ inflight = EmptyBag
    /\ out.endpoint = "/compute"
    /\ out.status = 200
    /\ prev' = out
    /\ PostCompute(Append(out.req, Shaped(sh, out.body.average_close)))

InitCompute == Init /\ env = <<>>

NextCompute ==
    \/ ClientPost
    \/ \E sh \in Shapes : ClientAppendAverage(sh)
    \/ \E t \in BagToSet(inflight) : ComputeCloses(t)
    \/ \E t \in BagToSet(inflight) : ComputeReturn(t)

SpecCompute == InitCompute /\ [][NextCompute]_vars

---------------------------------------------------------------------------
(* Exact arithmetic, for stating what the responses should be *)

\* The closes of a candle list, read off the request itself
CloseOf(req, i) == req[i].close

\* Exact sum of the first k closes of a list of finite closes, in units
RECURSIVE ExactSum(_, _)
ExactSum(req, k) == IF k = 0 THEN 0 ELSE ExactSum(req, k - 1) + CloseOf(req, k).val

\* Exact sum of the magnitudes of the closes
RECURSIVE SumAbs(_, _)
SumAbs(req, k) == IF k = 0 THEN 0 ELSE SumAbs(req, k - 1) + Abs(CloseOf(req, k).val)

\* v is a finite float of the format.  Stated from the format's definition:
\* some significand below 2^Precision, some exponent up to MaxExp.
Representable(v) ==
    \E e \in 0..MaxExp : \E m \in 0..(Pow2(Precision) - 1) : Abs(v) = m * Pow2(e)

\* No operation on the list rounds: every forward partial sum is a float and
\* the exact mean is a float.
NoRounding(req) ==
    /\ \A k \in 1..Len(req) : Representable(ExactSum(req, k))
    /\ ExactSum(req, Len(req)) % Len(req) = 0
    /\ Representable(ExactSum(req, Len(req)) \div Len(req))

\* 1/u, u the unit roundoff
RoundoffInv == Pow2(Precision)

ComputeOk == out.endpoint = "/compute" /\ out.status = 200

\* The client has its second response: to the list extended by one candle
Appended ==
    /\ prev # NoResponse
    /\ ComputeOk
    /\ Len(out.req) = Len(prev.req) + 1

---------------------------------------------------------------------------
(* C1 *)

\* C1: for every non-empty candle list, last_close is the close of the final
\* element in input order, whatever the candles' time values.
C1_LastCloseIsFinalElement ==
    (out.endpoint = "/compute" /\ Len(out.req) > 0)
        => /\ out.status = 200
           /\ out.body.last_close = CloseOf(out.req, Len(out.req))

\* A response to a list whose latest candle by time is not the last one and
\* has another close.
C1_Witness ==
    /\ ComputeOk
    /\ \E i \in 1..Len(out.req) :
          /\ out.req[i].time > out.req[Len(out.req)].time
          /\ CloseOf(out.req, i) # CloseOf(out.req, Len(out.req))
    /\ out.body.last_close = CloseOf(out.req, Len(out.req))

(* C3 *)

\* C3: for every non-empty candle list, count is the number of candles in the
\* request; duplicates and candles of equal time are each counted.
C3_CountIsLength ==
    (out.endpoint = "/compute" /\ Len(out.req) > 0)
        => /\ out.status = 200
           /\ out.body.count = Len(out.req)

\* A response to a list that holds the same candle twice.
C3_Witness ==
    /\ ComputeOk
    /\ \E i, j \in 1..Len(out.req) : i # j /\ out.req[i] = out.req[j]
    /\ out.body.count = Len(out.req)

(* C2 *)

\* C2 as stated: for every non-empty candle list, average_close times count
\* is the exact sum of the closes.
C2_AverageTimesCountIsSum ==
    (out.endpoint = "/compute" /\ Len(out.req) > 0)
        => /\ out.status = 200
           /\ IsFinite(out.body.average_close)
           /\ out.body.average_close.val * Len(out.req) = ExactSum(out.req, Len(out.req))

\* C2 amended: for every non-empty candle list whose float sum does not
\* overflow, average_close is the mean up to floating-point rounding,
\*   |average_close * n - S| <= n * T / (1/u - n + 1) + n / 2
\* (n the count, S the exact sum of the closes, T the exact sum of their
\* magnitudes, u the unit roundoff, the last term in units of the smallest
\* subnormal), and it is the mean exactly when no operation rounds.
C2_AverageWithinRounding ==
    (out.endpoint = "/compute" /\ Len(out.req) > 0)
        => /\ out.status = 200
           /\ LET n == Len(out.req)
                  S == ExactSum(out.req, n)
                  T == SumAbs(out.req, n)
                  D == RoundoffInv - n + 1
                  avg == out.body.average_close
              IN  /\ IsFinite(avg) =>
                       2 * D * Abs(avg.val * n - S) <= 2 * n * T + n * D
                  /\ NoRounding(out.req) => avg = Fin(S \div n)

\* A response whose average is finite and is not the exact mean: rounding
\* happened and the result is within the tolerance.
C2_Witness ==
    /\ ComputeOk
    /\ Len(out.req) >= 2
    /\ IsFinite(out.body.average_close)
    /\ out.body.average_close.val * Len(out.req) # ExactSum(out.req, Len(out.req))

(* C9 *)

\* C9 as stated: appending a candle whose close is the average A and calling
\* /compute again yields the same average_close A, count + 1 and last_close A.
C9_AppendAverageKeepsAverage ==
    Appended
        => /\ out.body.average_close = prev.body.average_close
           /\ out.body.count = prev.body.count + 1
           /\ out.body.last_close = prev.body.average_close

\* C9 amended: appending a candle whose close is the average A and calling
\* /compute again yields count + 1 and last_close A; the new average_close is
\* A when no operation of either call rounds, and otherwise, when neither sum
\* overflows, it is A up to floating-point rounding:
\*   (n+1) * |A' - A| <= tol(n, T) + tol(n+1, T + |A|),
\*   tol(k, t) = k * t / (1/u - k + 1) + k / 2.
C9_AppendAverageWithinRounding ==
    Appended
        => LET n == Len(prev.req)
               T == SumAbs(prev.req, n)
               A == prev.body.average_close
               A2 == out.body.average_close
               D1 == RoundoffInv - n + 1
               D2 == RoundoffInv - n
           IN  /\ out.body.count = prev.body.count + 1
               /\ out.body.last_close = A
               /\ (NoRounding(prev.req) /\ NoRounding(out.req)) => A2 = A
               /\ (IsFinite(A) /\ IsFinite(A2)) =>
                     2 * D1 * D2 * (n + 1) * Abs(A2.val - A.val)
                       <= 2 * n * T * D2 + 2 * (n + 1) * (T + Abs(A.val)) * D1
                            + (2 * n + 1) * D1 * D2

\* The second response, to a list of at least two candles whose sum and mean
\* are exact, extended by its average: the average is unchanged.
C9_Witness ==
    /\ Appended
    /\ Len(prev.req) >= 2
    /\ NoRounding(prev.req)
    /\ NoRounding(out.req)
    /\ out.body.average_close = prev.body.average_close
    /\ out.body.count = prev.body.count + 1

(* C10 *)

\* The candle lists that have the closes of req, candle by candle, and any
\* of the other fields
SameCloses(req) ==
    {[i \in 1..Len(req) |-> Shaped(shs[i], CloseOf(req, i))] :
        shs \in [1..Len(req) -> Shapes]}

\* C10: the /compute response depends only on the sequence of close values:
\* every non-empty request with the same closes, whatever its time, open,
\* high, low and volume fields, gets the same count, last_close and
\* average_close, and none is rejected.
C10_ResponseDependsOnClosesOnly ==
    (out.endpoint = "/compute" /\ Len(out.req) > 0)
        => /\ out.status = 200
           /\ \A closes \in {Closes(other) : other \in SameCloses(out.req)} :
                 ComputeResult(sumImpl, closes)
                    = [status |-> 200, raised |-> None, body |-> out.body]

\* A response to a list with duplicate times, times out of order, high < low
\* and a negative volume.
C10_Witness ==
    /\ ComputeOk
    /\ \E i, j, k \in 1..Len(out.req) :
          /\ i < j /\ j < k
          /\ out.req[i].time = out.req[j].time
          /\ out.req[j].time > out.req[k].time
          /\ out.req[k].high.val < out.req[k].low.val
          /\ out.req[k].volume.val < 0
    /\ \E other \in SameCloses(out.req) : other # out.req

---------------------------------------------------------------------------
(* C4 *)

\* C4: a /compute request with an empty candle list is accepted, reaches the
\* handler and always ends in a fault answered as a server error: never a
\* ComputeResponse record, and the same on every such request.
C4_EmptyListFaults ==
    /\ (out.endpoint = "/compute" /\ Len(out.req) = 0)
          => out.status = 500 /\ out.body = ServerError
    /\ \A t \in BagToSet(inflight) :
          (t.pc = "L45" /\ Len(t.req) = 0)
             => LET r == ComputeResult(sumImpl, t.closes)
                IN  r.status = 500 /\ r.raised = "IndexError"

\* The server error sent for an empty list, by a process that has also
\* answered /meta.
C4_Witness ==
    /\ out = Response("/compute", <<>>, 500, ServerError)
    /\ lastUptime # <<>>

(* C5 *)

\* C5: across the /meta calls of one process, uptime_seconds is non-negative
\* in every response and non-decreasing from each call to the next.
C5_UptimeNonNegativeMonotone ==
    [][lastUptime' # <<>>
         => /\ lastUptime'[1] >= 0
            /\ lastUptime # <<>> => lastUptime'[1] >= lastUptime[1]]_vars

(* C6 *)

\* C6: the version of every /meta response is the value SERVICE_VERSION had
\* when the process started, "dev" if it was not set then; VERSION is never
\* changed, also when the environment variable is changed later and after
\* any interleaving of requests.
C6_VersionFixedAtStart ==
    /\ VERSION = Getenv(envAtStart, "dev")
    /\ out.endpoint = "/meta" => out.body.version = Getenv(envAtStart, "dev")

\* A /meta response carrying the version of the start although the
\* environment variable now has another value, with a /compute in flight.
C6_Witness ==
    /\ out.endpoint = "/meta"
    /\ env # envAtStart
    /\ Getenv(env, "dev") # Getenv(envAtStart, "dev")
    /\ out.body.version = Getenv(envAtStart, "dev")
    /\ inflight # EmptyBag

(* C7 *)

\* C7: GET /health always answers 200 with exactly {"status": "ok"}, in every
\* reachable state: whatever preceded it and whatever is in flight.
C7_HealthAlwaysOk ==
    out.endpoint = "/health" => out.status = 200 /\ out.body = [status |-> "ok"]

\* A /health response sent while every worker is inside compute(), one of
\* them on an empty list.
C7_Witness ==
    /\ out.endpoint = "/health"
    /\ out.body = [status |-> "ok"]
    /\ BagCardinality(inflight) = MaxInFlight
    /\ \E t \in BagToSet(inflight) : Len(t.req) = 0

(* C8 *)

\* C8: handling a /compute request changes no process-wide state (VERSION,
\* START_TIME), and its response is a function of its candle list alone,
\* whatever was handled before it or is interleaved with it.
C8_ComputeIsPure ==
    [][inflight' # inflight
         => /\ VERSION' = VERSION
            /\ START_TIME' = START_TIME
            /\ out' # out =>
                  LET r == ComputeResult(sumImpl, Closes(out'.req))
                  IN  out' = Response("/compute", out'.req, r.status, r.body)]_vars

\* A successful /compute response sent while another activation is in flight
\* and after a /meta call.
C8_Witness ==
    /\ ComputeOk
    /\ inflight # EmptyBag
    /\ lastUptime # <<>>

====
